---- MODULE Spec2Model ----
(***************************************************************************)
(* obscure-id: the ObscuredIdGenerator of index.js as a state machine.     *)
(*                                                                         *)
(* Strings are sequences of one-character strings.  JavaScript numbers     *)
(* that can grow beyond 32 bits (ids, maxId, decode's accumulator) are     *)
(* exact naturals written as little-endian sequences of decimal digits.    *)
(* A double of the source holds such a number only to 53 significant bits:  *)
(* every sum, product, power and quotient the digit loops compute is       *)
(* rounded to the nearest double (ties to even), which changes nothing     *)
(* below 2^53.  Small quantities (lengths, indices, shift, r) are TLA+      *)
(* integers.                                                               *)
(***************************************************************************)
EXTENDS Integers, Sequences, FiniteSets, TLC

(***************************************************************************)
(* Characters and strings                                                  *)
(***************************************************************************)
Digits == <<"0","1","2","3","4","5","6","7","8","9">>

Lower == <<"a","b","c","d","e","f","g","h","i","j","k","l","m",
           "n","o","p","q","r","s","t","u","v","w","x","y","z">>

Upper == <<"A","B","C","D","E","F","G","H","I","J","K","L","M",
           "N","O","P","Q","R","S","T","U","V","W","X","Y","Z">>

\* index.js:81
DefaultCharset == Digits \o Lower \o Upper

\* index.js:80
DefaultKey == <<"P","l","e","a","s","e","F","i","l","l","M","e">>

\* What a string index out of range (or a missing argument) reads as.
Undefined == "undefined"

\* ToString(undefined), as string concatenation appends it.
UndefinedText == <<"u","n","d","e","f","i","n","e","d">>

\* The '\0' filler of generate's output buffer.
Nul == "NUL"

\* The first place from `from` on where c stands in s, or 0.
Position(s, c, from) ==
  LET places == {n \in from..Len(s) : s[n] = c}
  IN  IF places = {} THEN 0
      ELSE CHOOSE n \in places : \A m \in places : n <= m

\* String.prototype.indexOf for a one-character needle (undefined searches
\* for the text "undefined", which no one-character position matches unless
\* the whole word stands there; the charsets here hold no such word): the
\* 0-based index of the first occurrence, or -1.
IndexOf(s, c) == Position(s, c, 1) - 1

\* s[i] of JavaScript, i 0-based.
CharAt(s, i) == IF i >= 0 /\ i < Len(s) THEN s[i + 1] ELSE Undefined

\* What `text + c` appends for a value read by s[i].
TextOf(c) == IF c = Undefined THEN UndefinedText ELSE <<c>>

Max(a, b) == IF a >= b THEN a ELSE b

Min(a, b) == IF a <= b THEN a ELSE b

\* String.prototype.substring(from, to): both ends clamped to [0, length]
\* and swapped when from > to.
Substring(s, from, to) ==
  LET f == Min(Max(from, 0), Len(s))
      t == Min(Max(to, 0), Len(s))
      lo == Min(f, t)
      hi == Max(f, t)
  IN  SubSeq(s, lo + 1, hi)

\* String.prototype.substring(from).
SubstringFrom(s, from) == Substring(s, from, Len(s))

\* a % b of JavaScript on integers: the sign follows the dividend; b = 0
\* gives NaN, which every use here (substring, charCodeAt) coerces to 0.
Rem(a, b) ==
  LET m == IF b < 0 THEN 0 - b ELSE b
  IN  IF m = 0 THEN 0
      ELSE IF a >= 0 THEN a % m
      ELSE 0 - ((0 - a) % m)

\* The UTF-16 code of a character (String.prototype.charCodeAt), for the
\* characters the model uses: digits, letters, the space and "!".
Ord(c) ==
  IF Position(Digits, c, 1) > 0 THEN 47 + Position(Digits, c, 1)
  ELSE IF Position(Upper, c, 1) > 0 THEN 64 + Position(Upper, c, 1)
  ELSE IF Position(Lower, c, 1) > 0 THEN 96 + Position(Lower, c, 1)
  ELSE IF c = " " THEN 32
  ELSE 33

(***************************************************************************)
(* Exact naturals: little-endian decimal digits, no leading zero, 0 = <<>> *)
(***************************************************************************)
RECURSIVE BigOf(_)
BigOf(n) == IF n = 0 THEN <<>> ELSE <<n % 10>> \o BigOf(n \div 10)

\* Digit i of a, 0 above its last.
BigDigit(a, i) == IF i <= Len(a) THEN a[i] ELSE 0

RECURSIVE BigAddFrom(_, _, _, _, _)
\* School addition from digit i up: c is the carry, out the digits below i.
BigAddFrom(a, b, i, c, out) ==
  IF (i <= Len(a) \/ i <= Len(b)) /\ c >= 0 /\ Len(out) = i - 1
    THEN BigAddFrom(a, b, i + 1, (BigDigit(a, i) + BigDigit(b, i) + c) \div 10,
                    Append(out, (BigDigit(a, i) + BigDigit(b, i) + c) % 10))
    ELSE out \o BigOf(c)

\* a + n for a small natural n
BigAddSmall(a, n) == BigAddFrom(a, <<>>, 1, n, <<>>)

BigAdd(a, b) == BigAddFrom(a, b, 1, 0, <<>>)

RECURSIVE BigMulFrom(_, _, _, _, _)
\* School multiplication from digit i up: c is the carry, out the digits
\* below i.
BigMulFrom(a, m, i, c, out) ==
  IF i <= Len(a) /\ c >= 0 /\ Len(out) = i - 1
    THEN BigMulFrom(a, m, i + 1, (a[i] * m + c) \div 10,
                    Append(out, (a[i] * m + c) % 10))
    ELSE out \o BigOf(c)

\* a * m for a small natural m
BigMul(a, m) == IF m = 0 THEN <<>> ELSE BigMulFrom(a, m, 1, 0, <<>>)

RECURSIVE BigPowFrom(_, _, _)
\* acc * base ** e; 0 stays 0.
BigPowFrom(base, e, acc) ==
  IF e >= 1 /\ acc # <<>> THEN BigPowFrom(base, e - 1, BigMul(acc, base))
  ELSE acc

\* base ** e
BigPow(base, e) == BigPowFrom(base, e, <<1>>)

RECURSIVE BigDivFrom(_, _, _, _, _)
\* Long division from digit i of a down: rem is what the digits above i
\* leave, q the quotient's digits for them.
BigDivFrom(a, d, i, rem, q) ==
  IF i >= 1 /\ rem < d /\ Len(q) = Len(a) - i
    THEN BigDivFrom(a, d, i - 1, (rem * 10 + a[i]) % d,
                    <<(rem * 10 + a[i]) \div d>> \o q)
    ELSE <<q, rem>>

\* <<floor(a / d), a % d>> for a small positive d; the quotient may carry
\* leading zeros until BigTrim.
BigDivRem(a, d) == BigDivFrom(a, d, Len(a), 0, <<>>)

RECURSIVE BigTrim(_)
BigTrim(a) ==
  IF a = <<>> THEN a
  ELSE IF a[Len(a)] = 0 THEN BigTrim(SubSeq(a, 1, Len(a) - 1))
  ELSE a

\* Math.floor(a / d)
BigDiv(a, d) == BigTrim(BigDivRem(a, d)[1])

\* a % d
BigMod(a, d) == BigDivRem(a, d)[2]

RECURSIVE BigLessFrom(_, _, _)
BigLessFrom(a, b, i) ==
  IF i = 0 THEN FALSE
  ELSE IF a[i] # b[i] THEN a[i] < b[i]
  ELSE BigLessFrom(a, b, i - 1)

\* a < b
BigLess(a, b) ==
  IF Len(a) # Len(b) THEN Len(a) < Len(b) ELSE BigLessFrom(a, b, Len(a))

RECURSIVE BigToInt(_)
BigToInt(a) == IF a = <<>> THEN 0 ELSE a[1] + 10 * BigToInt(Tail(a))

(***************************************************************************)
(* Doubles: a JavaScript number is kept to 53 significant bits             *)
(***************************************************************************)
RECURSIVE Log2(_)
\* The e with 2^e <= n < 2^(e+1), for a TLA+ integer n >= 1.
Log2(n) == IF n < 2 THEN 0 ELSE 1 + Log2(n \div 2)

RECURSIVE Exponent(_)
\* The e with 2^e <= a < 2^(e+1), for a natural number a >= 1.
Exponent(a) ==
  IF Len(a) < 10 THEN Log2(BigToInt(a))
  ELSE 15 + Exponent(BigDiv(a, 2^15))

RECURSIVE ShiftRight(_, _)
\* floor(a / 2^k)
ShiftRight(a, k) ==
  IF k <= 15 THEN BigDiv(a, 2^k)
  ELSE ShiftRight(BigDiv(a, 2^15), k - 15)

RECURSIVE ShiftLeft(_, _)
\* a * 2^k
ShiftLeft(a, k) ==
  IF k <= 15 THEN BigMul(a, 2^k)
  ELSE ShiftLeft(BigMul(a, 2^15), k - 15)

\* m or m + 1 as up says.
Bump(m, up) == IF up THEN BigAddSmall(m, 1) ELSE m

\* The double nearest to a + x for a natural number a >= 2^53 and a
\* fraction 0 <= x < 1, of which more says whether it is above 0: the
\* nearest multiple of 2^(e - 52), the even one when two are equally near.
Nearest(a, more) ==
  LET k == Exponent(a) - 52
      m2 == ShiftRight(a, k - 1)
      m == BigDiv(m2, 2)
      sticky == more \/ ShiftLeft(m2, k - 1) # a
      odd == m # <<>> /\ m[1] % 2 = 1
  IN  ShiftLeft(Bump(m, m2[1] % 2 = 1 /\ (sticky \/ odd)), k)

\* The double nearest to the natural number a: a itself below 2^53.
Round(a) ==
  IF Len(a) < 16 THEN a
  ELSE IF Exponent(a) <= 52 THEN a
  ELSE Nearest(a, FALSE)

\* Math.floor(a / d) in doubles, for a divisor below 2^16: the quotient
\* q + f / d is rounded to the nearest double before the floor is taken.
\* From 2^53 on the doubles are whole numbers 2^(e - 52) apart; between 2^52
\* and 2^53 they are the whole numbers; below, they are 2^(e - 52) apart and
\* the floor is q + 1 when the quotient rounds up to it.
FloorDiv(a, d) ==
  LET q == BigDiv(a, d)
      f == BigMod(a, d)
  IN  IF Len(q) < 12 THEN q
      ELSE LET e == Exponent(q)
           IN  IF e >= 53 THEN Nearest(q, f # 0)
               ELSE IF e = 52
                 THEN Bump(q, 2 * f > d \/ (2 * f = d /\ q[1] % 2 = 1))
               ELSE Bump(q, 53 - e <= 16 /\ f # 0 /\ (d - f) * 2^(53 - e) <= d)

(***************************************************************************)
(* JavaScript values, as far as the calls below tell them apart            *)
(***************************************************************************)
Num(n) == [type |-> "number", neg |-> FALSE, mag |-> BigOf(n)]

NumBig(a) == [type |-> "number", neg |-> FALSE, mag |-> a]

Neg(n) == [type |-> "number", neg |-> TRUE, mag |-> BigOf(n)]

\* The number n + 0.5.
Half(n) == [type |-> "number", neg |-> FALSE, mag |-> BigOf(n), half |-> TRUE]

\* The number has the fractional part 0.5.
HasHalf(v) == "half" \in DOMAIN v

Str(s) == [type |-> "string", s |-> s]

Undef == [type |-> "undefined"]

Obj == [type |-> "object"]

Null == [type |-> "null"]

False == [type |-> "boolean", b |-> FALSE]

\* An array of numbers, each in tenths (3 is 0.3).
Array(vals) == [type |-> "array", vals |-> vals]

\* A small integer argument as a TLA+ integer.
IntOf(v) == IF v.neg THEN 0 - BigToInt(v.mag) ELSE BigToInt(v.mag)

\* How a call ends: a returned value (for the async methods, the value the
\* promise resolves to) or a thrown error (the rejection).
Return(v) == [kind |-> "return", value |-> v]

Throw(e, m) == [kind |-> "throw", error |-> e, message |-> m]

(***************************************************************************)
(* Randomness                                                              *)
(***************************************************************************)
\* A random value is written in tenths: 3 stands for 0.3.

\* index.js:5-7: Math.random(), over the values the model draws.
defaultRandomFunction == [type |-> "function", name |-> "defaultRandomFunction"]

\* test.js:95-98: `async function () { return randomValues.shift(); }` over
\* its own array, here with what is left of it.
RandomFunction(randomValues) ==
  [type |-> "function", name |-> "randomFunction", randomValues |-> randomValues]

\* The values Math.random() yields in the model, in tenths.
RandomDraws == {0, 5}

\* One result of a randomness source: <<v>> for the number v / 10 and
\* <<>> for undefined (shift() of an empty array).
ShiftResult(randomValues) ==
  IF randomValues = <<>> THEN <<>> ELSE <<randomValues[1]>>

ShiftRest(randomValues) ==
  IF randomValues = <<>> THEN <<>> ELSE Tail(randomValues)

\* An array taken only when it has exactly two elements.
PromisesOfPair(random) ==
  IF random.type = "function"
    THEN IF random.name = "defaultRandomFunction"
           THEN {<< <<a>>, <<b>> >> : a \in RandomDraws, b \in RandomDraws}
           ELSE {<<ShiftResult(random.randomValues),
                   ShiftResult(ShiftRest(random.randomValues))>>}
  ELSE IF random.type = "array" /\ Len(random.vals) = 2
    THEN {<< <<random.vals[1]>>, <<random.vals[2]>> >>}
  ELSE {}

\* A function whose second invocation comes one invocation late.
PromisesApart(random) ==
  IF random.type = "function"
    THEN IF random.name = "defaultRandomFunction"
           THEN {<< <<a>>, <<b>> >> : a \in RandomDraws, b \in RandomDraws}
           ELSE {<<ShiftResult(random.randomValues),
                   ShiftResult(ShiftRest(ShiftRest(random.randomValues)))>>}
  ELSE IF random.type = "array" /\ Len(random.vals) >= 2
    THEN {<< <<random.vals[1]>>, <<random.vals[2]>> >>}
  ELSE {}

\* generateRandomNumbers up to its await: the pairs of results the two
\* promises can resolve to; the empty set when promises.length != 2, where
\* it throws the TypeError.
Promises(random) ==
  IF random.type = "undefined"
    THEN {<< <<a>>, <<b>> >> : a \in RandomDraws, b \in RandomDraws}
  ELSE IF random.type = "function"
    THEN IF random.name = "defaultRandomFunction"
           THEN {<< <<a>>, <<b>> >> : a \in RandomDraws, b \in RandomDraws}
           ELSE {<<ShiftResult(random.randomValues),
                   ShiftResult(ShiftRest(random.randomValues))>>}
  ELSE IF random.type = "array"
    THEN IF Len(random.vals) >= 2
           THEN {<< <<random.vals[1]>>, <<random.vals[2]>> >>}
           ELSE {}
  ELSE {}

\* The function after generateRandomNumbers has invoked it twice.
AfterTwoCalls(f) ==
  IF f.type = "function" /\ f.name = "randomFunction"
    THEN RandomFunction(ShiftRest(ShiftRest(f.randomValues)))
    ELSE f

\* (result * base) | 0; undefined * base is NaN, and NaN | 0 is 0.
Scale(result, base) ==
  IF result = <<>> THEN 0 ELSE (result[1] * base) \div 10

(***************************************************************************)
(* Configuration                                                           *)
(***************************************************************************)
\* assertConfiguration without its look at the key.
ConfigurationErrorKeyless(g) ==
  IF g.prefixLength < 0 THEN "invalid prefixLength"
  ELSE IF Len(g.charset) < 1 THEN "invalid charset"
  ELSE ""

\* assertConfiguration: the message of the RangeError it throws, or "".
ConfigurationError(g) ==
  IF g.prefixLength < 0 THEN "invalid prefixLength"
  ELSE IF Len(g.charset) < 1 THEN "invalid charset"
  ELSE IF Len(g.key) < 1 THEN "invalid key"
  ELSE ""

\* length - this.prefixLength with the prefix forgotten.
PayloadLengthWhole(g, len) == len

\* `const payloadLength = length - this.prefixLength`
PayloadLength(g, len) == len - g.prefixLength

\* maxId(length)
MaxId(g, length) ==
  IF ConfigurationError(g) # "" THEN Throw("RangeError", ConfigurationError(g))
  ELSE IF length.type # "number" /\ length.type # "undefined"
    THEN Throw("TypeError", "\"length\" is not a number")
  ELSE LET len == IF length.type = "undefined" THEN g.defaultIdLength
                  ELSE IntOf(length)
       IN  IF len - g.prefixLength <= 0 THEN Throw("RangeError", "invalid length")
           ELSE Return(NumBig(Round(BigPow(Len(g.charset),
                                           PayloadLength(g, len)))))

(***************************************************************************)
(* generate                                                                *)
(***************************************************************************)
\* The configuration fields an encode or decode reads.
Settings(g) ==
  [key |-> g.key, charset |-> g.charset,
   defaultIdLength |-> g.defaultIdLength, prefixLength |-> g.prefixLength]

\* id < 0 in place of id < 1.
IdNegative(id) == id.neg

\* `id < 1`
IdBelowOne(id) == id.neg \/ id.mag = <<>>

\* `id > this.maxId(length)`, of an id that is not below 1 and an integer max
Greater(id, max) ==
  BigLess(max.mag, id.mag) \/ (id.mag = max.mag /\ HasHalf(id))

\* generate, lines 142-162: the error it throws before drawing, or the
\* resolved length.
GenerateChecks(g, id, length) ==
  IF ConfigurationError(g) # "" THEN Throw("RangeError", ConfigurationError(g))
  ELSE IF id.type # "number" THEN Throw("TypeError", "\"id\" is not a number")
  ELSE IF IdBelowOne(id) THEN Throw("RangeError", "invalid id")
  ELSE LET maxId == MaxId(g, length)
           len == IF length.type = "undefined" THEN g.defaultIdLength
                  ELSE IntOf(length)
       IN  IF maxId.kind = "throw" THEN maxId
           ELSE IF Greater(id, maxId.value)
             THEN Throw("RangeError", "invalid id")
           ELSE IF len - g.prefixLength <= 0
             THEN Throw("RangeError", "invalid length")
           ELSE [kind |-> "checked", length |-> len]

\* A value that `||` passes over: undefined, null, 0, '' and false.
Falsy(v) ==
  \/ v.type \in {"undefined", "null"}
  \/ v.type = "number" /\ v.mag = <<>>
  \/ v.type = "string" /\ v.s = <<>>
  \/ v.type = "boolean" /\ ~v.b

\* `random || this.randomFunction`
RandomSource(g, random) ==
  IF Falsy(random) THEN g.randomFunction ELSE random

\* The key left where it starts.
RotateKeyNot(key, r) == key

\* key.substring(r % keyLength) + key.substring(0, r % keyLength)
RotateKey(key, r) ==
  SubstringFrom(key, Rem(r, Len(key))) \o Substring(key, 0, Rem(r, Len(key)))

\* c1 + c2 of two values read by s[i]: undefined + undefined is NaN.
PrefixText(c1, c2) ==
  IF c1 = Undefined /\ c2 = Undefined THEN <<"N","a","N">>
  ELSE TextOf(c1) \o TextOf(c2)

\* Twice the id: the digit loop below counts in halves, so that an id of
\* n + 0.5 has an exact value in it.
Twice(id) == BigAddSmall(BigMul(id.mag, 2), IF HasHalf(id) THEN 1 ELSE 0)

RECURSIVE OrderedPayload(_, _, _, _, _, _, _, _, _)
\* The digit loop, lines 191-205.  id2 and shift2 are twice id and twice
\* shift; nan: shift is NaN.  charset[x] of an x that is no integer is
\* undefined.
OrderedPayload(charset, key, keyLength, base, payloadLength, payloadIndex, id2, shift2, nan) ==
  IF payloadIndex >= payloadLength THEN <<>>
  ELSE LET digitIndex2 == IF nan THEN 0
                          ELSE BigMod(Round(BigAddSmall(id2, shift2)), 2 * base)
           digit == IF nan \/ digitIndex2 % 2 = 1 THEN Undefined
                    ELSE CharAt(charset, digitIndex2 \div 2)
           keyChar == CharAt(key, Rem(payloadIndex, keyLength))
           ordNaN == keyChar = Undefined
           newShift2 == IF nan \/ ordNaN THEN 0
                        ELSE (shift2 + digitIndex2 + 2 * Ord(keyChar)) % (2 * base)
       IN  TextOf(digit)
             \o OrderedPayload(charset, key, keyLength, base, payloadLength,
                               payloadIndex + 1,
                               BigMul(FloorDiv(id2, 2 * base), 2), newShift2,
                               nan \/ ordNaN)

RECURSIVE SkipSetDigits(_, _)
\* while (output[outputPosition] && output[outputPosition] != '\0')
SkipSetDigits(output, outputPosition) ==
  IF outputPosition < Len(output) /\ output[outputPosition + 1] # Nul
    THEN SkipSetDigits(output, outputPosition + 1)
    ELSE outputPosition

RECURSIVE SkipFree(_, _, _)
\* for (let j = 0; j < i; ++j), lines 225-232
SkipFree(output, outputPosition, i) ==
  IF i <= 0 THEN outputPosition
  ELSE SkipFree(output, SkipSetDigits(output, outputPosition + 1), i - 1)

\* Lines 218-232: the i-th position of output that is still free.
OutputPosition(output, i) == SkipFree(output, SkipSetDigits(output, 0), i)

RECURSIVE RandomizeOrder(_, _, _, _, _)
\* The placement loop, lines 212-239: the filled buffer, or overflow when
\* a placement reaches `return false`.
RandomizeOrder(orderedPayload, payloadLength, payloadIndex, r, output) ==
  IF payloadIndex >= payloadLength THEN [overflow |-> FALSE, output |-> output]
  ELSE LET slots == payloadLength - payloadIndex
           outputPosition == OutputPosition(output, r % slots)
       IN  IF outputPosition >= payloadLength
             THEN [overflow |-> TRUE, output |-> output]
             ELSE RandomizeOrder(orderedPayload, payloadLength, payloadIndex + 1,
                    r \div slots,
                    Substring(output, 0, outputPosition)
                      \o TextOf(CharAt(orderedPayload, payloadIndex))
                      \o SubstringFrom(output, outputPosition + 1))

\* `let r = r1 + r2 * base`, line 173
RandomNumber(base, results) ==
  Scale(results[1], base) + Scale(results[2], base) * base

\* this.charset[r1] + this.charset[r2], lines 182 and 242
Prefix(g, base, results) ==
  PrefixText(CharAt(g.charset, Scale(results[1], base)),
             CharAt(g.charset, Scale(results[2], base)))

\* orderedPayload after the digit loop, lines 175-205
CipherOutput(g, id, base, payloadLength, results) ==
  OrderedPayload(g.charset,
                 Prefix(g, base, results)
                   \o RotateKey(g.key, RandomNumber(base, results)),
                 Len(g.key) + g.prefixLength, base, payloadLength, 0,
                 Twice(id), 0, FALSE)

\* output after the placement loop, lines 207-239
Placed(g, id, base, payloadLength, results) ==
  RandomizeOrder(CipherOutput(g, id, base, payloadLength, results),
                 payloadLength, 0, RandomNumber(base, results),
                 [n \in 1..payloadLength |-> Nul])

\* generate after its await, lines 170-244: the call read base and
\* payloadLength before the await, and reads key, charset and prefixLength
\* of g now.
GenerateResult(g, id, base, payloadLength, results) ==
  LET placed == Placed(g, id, base, payloadLength, results)
  IN  IF placed.overflow THEN Return(False)
      ELSE Return(Str(Prefix(g, base, results) \o placed.output))

(***************************************************************************)
(* decode                                                                  *)
(***************************************************************************)
RECURSIVE Unrandomize(_, _, _, _)
\* Lines 304-313: the payload in the order the digit loop wrote it.
Unrandomize(unorderedPayload, payloadLength, payloadIndex, r) ==
  IF payloadIndex >= payloadLength THEN <<>>
  ELSE LET slots == payloadLength - payloadIndex
           i == Rem(r, slots)
       IN  TextOf(CharAt(unorderedPayload, i))
             \o Unrandomize(Substring(unorderedPayload, 0, i)
                              \o SubstringFrom(unorderedPayload, i + 1),
                            payloadLength, payloadIndex + 1, r \div slots)

RECURSIVE DecodeDigits(_, _, _, _, _, _, _, _, _)
\* Lines 315-334.
DecodeDigits(charset, key, keyLength, base, payloadLength, tmp, n, out, shift) ==
  IF n >= payloadLength \/ Len(out) < 0 THEN Return(NumBig(out))
  ELSE IF IndexOf(charset, CharAt(tmp, n)) = -1 THEN Return(False)
  ELSE LET index == IndexOf(charset, CharAt(tmp, n))
           i == IF index - shift < 0 THEN index - shift + base ELSE index - shift
           c == CharAt(key, Rem(n, keyLength))
       IN  IF c = Undefined
             THEN Throw("TypeError", "Cannot read properties of undefined")
             ELSE DecodeDigits(charset, key, keyLength, base, payloadLength, tmp,
                    n + 1,
                    Round(BigAdd(out, Round(BigMul(Round(BigPow(base, n)), i)))),
                    (shift + ((i + shift) % base) + Ord(c)) % base)

\* Only the first character looked at.
ForeignFirst(charset, text) ==
  text # <<>> /\ IndexOf(charset, text[1]) = -1

\* Lines 269-273: some character of text is not in charset.
Foreign(charset, text) ==
  \E n \in 1..Len(text) : IndexOf(charset, text[n]) = -1

\* decode(id)
Decode(g, id) ==
  IF ConfigurationError(g) # "" THEN Throw("RangeError", ConfigurationError(g))
  ELSE IF id.type # "string" THEN Throw("TypeError", "\"id\" is not a string")
  ELSE IF Foreign(g.charset, id.s) THEN Throw("TypeError", "\"id\" is invalid")
  ELSE LET payloadLength == Len(id.s) - g.prefixLength
           base == Len(g.charset)
           r1 == CharAt(id.s, 0)
           r2 == CharAt(id.s, 1)
           r == IndexOf(g.charset, r2) * base + IndexOf(g.charset, r1)
           key == PrefixText(r1, r2) \o RotateKey(g.key, r)
           keyLength == Len(g.key) + g.prefixLength
           tmp == Unrandomize(SubstringFrom(id.s, g.prefixLength),
                              payloadLength, 0, r)
       IN  DecodeDigits(g.charset, key, keyLength, base, payloadLength, tmp,
                        0, <<>>, 0)

(***************************************************************************)
(* The generator object and its callers                                    *)
(***************************************************************************)
VARIABLES
  key,              \* this.key
  charset,          \* this.charset
  defaultIdLength,  \* this.defaultIdLength
  prefixLength,     \* this.prefixLength
  randomFunction,   \* this.randomFunction
  pending,          \* the generate calls suspended at their await, oldest first
  last              \* the call that ended last, with how it ended

vars == <<key, charset, defaultIdLength, prefixLength, randomFunction,
          pending, last>>

config == <<key, charset, defaultIdLength, prefixLength, randomFunction>>

NoCall == [op |-> "none"]

\* The generator as the methods read it.
This ==
  [key |-> key, charset |-> charset, defaultIdLength |-> defaultIdLength,
   prefixLength |-> prefixLength, randomFunction |-> randomFunction]

\* `return this`: the generator, with the fields it has at the return.
Generator(g) == [type |-> "object", this |-> g]

(***************************************************************************)
(* Inputs of the calls                                                     *)
(***************************************************************************)
\* The ids 1..MaxSmallId are tried at every length.
MaxSmallId == 4

\* How many configure or resetConfiguration calls the model lets run while
\* one generate call is suspended.
MaxInterleaved == 1

\* How many generate calls can be suspended at a time.
MaxInFlight == 2

\* "ivUVjy0Q", test.js:27
Fixture == <<"i","v","U","V","j","y","0","Q">>

KeyK == <<"k">>

CharsetAB == <<"a","b">>

\* The option objects handed to configure.
ConfigureOptions ==
  { [key |-> KeyK, charset |-> CharsetAB, defaultIdLength |-> 5],
    [prefixLength |-> 0],
    [prefixLength |-> 3],
    [prefixLength |-> -1],
    [key |-> <<>>],
    [charset |-> <<>>],
    [randomFunction |-> RandomFunction(<<3, 5>>)] }

IdArgs ==
  {Neg(1), Num(0), Half(0), Half(1), Num(17), Num(19), Str(<<"1">>)}
    \cup {Num(n) : n \in 1..MaxSmallId}

\* maxId(length) and maxId(length) + 1 of the generator as it is.
BoundaryIds(length) ==
  LET maxId == MaxId(This, length)
  IN  IF maxId.kind = "return"
        THEN {maxId.value, NumBig(Round(BigAddSmall(maxId.value.mag, 1)))}
        ELSE {}

LengthArgs == {Undef, Num(3), Num(8)}

\* Ids for the length of twelve characters, whose maxId is 62^10 under the
\* default charset: 2^53 + 2, and 62^10 - 256.
LargeIds ==
  { NumBig(<<4,9,9,0,4,7,4,5,2,9,9,1,7,0,0,9>>),
    NumBig(<<8,6,9,9,3,3,8,6,8,5,6,3,9,9,2,9,3,8>>) }

\* The arguments of the maxId calls.
MaxIdArgs == LengthArgs \cup {Str(<<"8">>)}

RandomArgs == {Undef, Array(<<3, 5>>), Array(<<3>>)}

DecodeArgs ==
  { Str(Fixture),
    Str(<<"a","b","a","b">>),
    Str(<<"!","b","a","b">>),
    Str(<<"a","b","!","b">>),
    Str(<<"a","b","a","!">>),
    Str(<<"a">>),
    Str(<<>>),
    Num(19) }

\* The string the last generate call returned, as a caller passes it on.
Returned ==
  IF last.op = "generate" /\ last.outcome.kind = "return"
       /\ last.outcome.value.type = "string"
    THEN {last.outcome.value}
    ELSE {}

\* The randomness arguments of the encode calls: the shapes that
\* generateRandomNumbers tells apart, and an array with a value above 1.
RandomShapes ==
  { Null, Num(0), Obj, Str(<<"a">>),
    Array(<<>>), Array(<<3, 5, 7>>), Array(<<15, 5>>),
    RandomFunction(<<3, 5>>) }

DispatchArgs == {Num(19), Str(Fixture), Str(<<"a","b","!","b">>), Undef, Obj}

(***************************************************************************)
(* Actions                                                                 *)
(***************************************************************************)
Init ==
  /\ key = DefaultKey
  /\ charset = DefaultCharset
  /\ defaultIdLength = 8
  /\ prefixLength = 2
  /\ randomFunction = defaultRandomFunction
  /\ pending = <<>>
  /\ last = NoCall

\* A caller may reconfigure between its calls, and (MaxInterleaved times)
\* while a generate call is suspended.
MayConfigure ==
  IF pending = <<>> THEN last = NoCall
  ELSE \A n \in DOMAIN pending : pending[n].configured < MaxInterleaved

\* pending, after one more configure or resetConfiguration ran meanwhile.
Interleaved ==
  [n \in DOMAIN pending |-> [pending[n] EXCEPT !.configured = @ + 1]]

\* The loop that assigns nothing.
AssignedNever(options, field, prior) == prior

\* `for (const key in options) { this[key] = options[key]; }`: the value
\* of this[field] after the loop, prior being its value before.
Assigned(options, field, prior) ==
  IF field \in DOMAIN options THEN options[field] ELSE prior

\* configure(options), index.js:71-77
Configure(options) ==
  /\ MayConfigure
  /\ key' = Assigned(options, "key", key)
  /\ charset' = Assigned(options, "charset", charset)
  /\ defaultIdLength' = Assigned(options, "defaultIdLength", defaultIdLength)
  /\ prefixLength' = Assigned(options, "prefixLength", prefixLength)
  /\ randomFunction' = Assigned(options, "randomFunction", randomFunction)
  /\ last' = [op |-> "configure", options |-> options,
              outcome |-> Return(Generator(This'))]
  /\ pending' = Interleaved

\* A reset that leaves the randomness source as it is.
ResetConfigurationPartial ==
  /\ MayConfigure
  /\ key' = DefaultKey
  /\ charset' = DefaultCharset
  /\ defaultIdLength' = 8
  /\ prefixLength' = 2
  /\ randomFunction' = randomFunction
  /\ last' = [op |-> "resetConfiguration", before |-> This,
              outcome |-> Return(Generator(This'))]
  /\ pending' = Interleaved

\* resetConfiguration(), index.js:79-87
ResetConfiguration ==
  /\ MayConfigure
  /\ key' = DefaultKey
  /\ charset' = DefaultCharset
  /\ defaultIdLength' = 8
  /\ prefixLength' = 2
  /\ randomFunction' = defaultRandomFunction
  /\ last' = [op |-> "resetConfiguration", before |-> This,
              outcome |-> Return(Generator(This'))]
  /\ pending' = Interleaved

\* maxId(length), index.js:95-113
MaxIdCall(length) ==
  /\ pending = <<>> /\ last = NoCall
  /\ last' = [op |-> "maxId", length |-> length, outcome |-> MaxId(This, length)]
  /\ UNCHANGED <<config, pending>>

\* generate(id, length, random) up to its await, index.js:141-170 and
\* 16-36.  encode is an alias (index.js:252-254).
Generate(entry, id, length, random) ==
  /\ Len(pending) < MaxInFlight /\ last = NoCall
  /\ LET call == [op |-> "generate", entry |-> entry, id |-> id,
                  length |-> length, random |-> random]
         checks == GenerateChecks(This, id, length)
     IN  IF checks.kind = "throw"
           THEN /\ last' = call @@ [outcome |-> checks]
                /\ UNCHANGED <<config, pending>>
         ELSE IF Promises(RandomSource(This, random)) = {}
           THEN /\ last' = call @@ [outcome |->
                                      Throw("TypeError", "\"random\" is not valid")]
                /\ UNCHANGED <<config, pending>>
         ELSE \E results \in Promises(RandomSource(This, random)) :
                /\ pending' = Append(pending,
                                call @@ [base |-> Len(charset),
                                         payloadLength |->
                                           PayloadLength(This, checks.length),
                                         source |-> RandomSource(This, random),
                                         results |-> results,
                                         configured |-> 0,
                                         called |-> Settings(This)])
                /\ randomFunction' = IF Falsy(random)
                                       THEN AfterTwoCalls(randomFunction)
                                       ELSE randomFunction
                /\ last' = NoCall
                /\ UNCHANGED <<key, charset, defaultIdLength, prefixLength>>

\* A resumed call that works on the configuration it was called under.
GenerateResumeSnapshot ==
  \E n \in DOMAIN pending :
    /\ last' = pending[n]
                 @@ [resumed |-> Settings(This),
                     outcome |-> GenerateResult(pending[n].called, pending[n].id,
                                   pending[n].base, pending[n].payloadLength,
                                   pending[n].results)]
    /\ pending' = SubSeq(pending, 1, n - 1)
                    \o SubSeq(pending, n + 1, Len(pending))
    /\ UNCHANGED config

\* generate from its await to its return, index.js:36-38 and 170-244: any
\* of the suspended calls may be the next to go on.
GenerateResume ==
  \E n \in DOMAIN pending :
    /\ last' = pending[n]
                 @@ [resumed |-> Settings(This),
                     outcome |-> GenerateResult(This, pending[n].id,
                                   pending[n].base, pending[n].payloadLength,
                                   pending[n].results)]
    /\ pending' = SubSeq(pending, 1, n - 1)
                    \o SubSeq(pending, n + 1, Len(pending))
    /\ UNCHANGED config

\* decode(id), index.js:262-335
DecodeCall(entry, id) ==
  /\ pending = <<>>
  /\ last = NoCall \/ id \in Returned
  /\ last' = [op |-> "decode", entry |-> entry, id |-> id,
              outcome |-> Decode(This, id),
              of |-> IF id \in Returned THEN last ELSE NoCall]
  /\ UNCHANGED <<config, pending>>

\* The two typeof branches exchanged.
ObscureIdSwapped(id, length, random) ==
  IF id.type = "string" THEN Generate("obscureId", id, length, random)
  ELSE IF id.type = "number" THEN DecodeCall("obscureId", id)
  ELSE /\ pending = <<>> /\ last = NoCall
       /\ last' = [op |-> "obscureId", entry |-> "obscureId", id |-> id,
                   outcome |-> Throw("TypeError",
                                     "\"id\" is not a number or a string")]
       /\ UNCHANGED <<config, pending>>

\* obscureId(id, length, random), index.js:123-131
ObscureId(id, length, random) ==
  IF id.type = "number" THEN Generate("obscureId", id, length, random)
  ELSE IF id.type = "string" THEN DecodeCall("obscureId", id)
  ELSE /\ pending = <<>> /\ last = NoCall
       /\ last' = [op |-> "obscureId", entry |-> "obscureId", id |-> id,
                   outcome |-> Throw("TypeError",
                                     "\"id\" is not a number or a string")]
       /\ UNCHANGED <<config, pending>>

\* The caller is done with the result of its last call (test.js:16-20).
Continue ==
  /\ pending = <<>> /\ last # NoCall
  /\ last' = NoCall
  /\ UNCHANGED <<config, pending>>

Next ==
  \/ \E options \in ConfigureOptions : Configure(options)
  \/ ResetConfiguration
  \/ \E length \in MaxIdArgs : MaxIdCall(length)
  \/ /\ pending = <<>> /\ last = NoCall
     /\ \E length \in LengthArgs :
          \E id \in IdArgs \cup BoundaryIds(length), random \in RandomArgs :
            Generate("generate", id, length, random)
  \/ /\ pending = <<>> /\ last = NoCall
     /\ \E random \in RandomShapes : Generate("encode", Num(19), Undef, random)
  \/ /\ pending = <<>> /\ last = NoCall
     /\ \E id \in LargeIds : Generate("encode", id, Num(12), Array(<<3, 5>>))
  \/ GenerateResume
  \/ /\ pending = <<>>
     /\ \E id \in DecodeArgs \cup Returned : DecodeCall("decode", id)
  \/ /\ pending = <<>> /\ last = NoCall
     /\ \E id \in DispatchArgs : ObscureId(id, Undef, Array(<<3, 5>>))
  \/ Continue

Spec == Init /\ [][Next]_vars

(***************************************************************************)
(* Callers that share one randomFunction                                    *)
(***************************************************************************)
\* The randomValues array of test.js:94, two values longer.
SharedValues == <<3, 5, 1, 7>>

SharedOptions ==
  { [randomFunction |-> RandomFunction(SharedValues)],
    [prefixLength |-> -1] }

SharedIds == {Num(0), Num(1), Num(19)}

SharedLengths == {Undef, Num(2)}

\* Callers that do not wait for one generate call to end before they make
\* the next one, all of them leaving the randomness to the configured
\* function.
NextShared ==
  \/ \E options \in SharedOptions : Configure(options)
  \/ ResetConfiguration
  \/ \E id \in SharedIds, length \in SharedLengths :
       Generate("generate", id, length, Undef)
  \/ GenerateResume
  \/ Continue

SpecShared == Init /\ [][NextShared]_vars

(***************************************************************************)
(* Properties                                                              *)
(***************************************************************************)
\* The configurations the documentation calls valid.
Valid(s) == Len(s.key) >= 1 /\ Len(s.charset) >= 1 /\ s.prefixLength >= 0

DefaultSettings ==
  [key |-> DefaultKey, charset |-> DefaultCharset,
   defaultIdLength |-> 8, prefixLength |-> 2]

\* A generate call that got past its await.
Resumed(c) == c.op = "generate" /\ "resumed" \in DOMAIN c

\* ... with the configuration it was called under still in place.
Steady(c) == Resumed(c) /\ c.called = c.resumed

\* A generate call that returned a string under one configuration.
Encoded(c) ==
  Steady(c) /\ c.outcome.kind = "return" /\ c.outcome.value.type = "string"

\* The configuration a generate call in `last` was called under: a call
\* that threw before its await leaves the configuration as it found it.
CalledUnder(c) == IF "called" \in DOMAIN c THEN c.called ELSE Settings(This)

\* The length a call resolves its length argument to.
Resolved(length, s) ==
  IF length.type = "undefined" THEN s.defaultIdLength ELSE IntOf(length)

IsError(outcome, e) == outcome.kind = "throw" /\ outcome.error = e

\* A decode call of exactly the string a generate call had just returned,
\* under the configuration that call ran under.
DecodedBack ==
  /\ last.op = "decode"
  /\ last.of # NoCall
  /\ Encoded(last.of)
  /\ last.of.called = Settings(This)

\* C1 (as claimed): under a valid configuration, decode(encode(id, length,
\* randomness)) returns id for every id in 1..maxId(length).
C1_RoundTrip ==
  (DecodedBack /\ Valid(Settings(This)))
    => last.outcome = Return(last.of.id)

\* C2: under the default configuration encode(19, 8) with the randomness
\* values 0.3 and 0.5, from a literal pair or from the configured
\* randomFunction, returns "ivUVjy0Q", and decode("ivUVjy0Q") returns 19.
C2_Fixture ==
  /\ ( /\ Steady(last)
       /\ last.called = DefaultSettings
       /\ last.id = Num(19)
       /\ Resolved(last.length, last.called) = 8
       /\ last.results = << <<3>>, <<5>> >> )
     => last.outcome = Return(Str(Fixture))
  /\ ( /\ last.op = "decode"
       /\ Settings(This) = DefaultSettings
       /\ last.id = Str(Fixture) )
     => last.outcome = Return(Num(19))

\* The fixture string came out of the configured randomFunction's 0.3 and
\* 0.5 and was decoded back to 19.
C2_Witness ==
  /\ DecodedBack
  /\ last.of.called = DefaultSettings
  /\ last.of.random = Undef
  /\ last.of.results = << <<3>>, <<5>> >>
  /\ last.of.id = Num(19)
  /\ last.id = Str(Fixture)
  /\ last.outcome = Return(Num(19))

\* The randomness argument is one generateRandomNumbers accepts.
Admissible(random) == random.type = "array" => Len(random.vals) >= 2

\* C3: under a valid configuration and a length above prefixLength, encode
\* fails with RangeError for id = 0, id < 0 and id = maxId(length) + 1, and
\* returns a string for id = 1 and id = maxId(length).
C3_Bounds ==
  ( /\ last.op = "generate"
    /\ last.id.type = "number"
    /\ Valid(CalledUnder(last))
    /\ Resolved(last.length, CalledUnder(last)) > CalledUnder(last).prefixLength )
  => LET s == CalledUnder(last)
         maxId == BigPow(Len(s.charset),
                         Resolved(last.length, s) - s.prefixLength)
     IN  /\ (last.id.neg \/ last.id = Num(0))
              => IsError(last.outcome, "RangeError")
         /\ last.id = NumBig(BigAddSmall(maxId, 1))
              => IsError(last.outcome, "RangeError")
         /\ ( /\ last.id = Num(1) \/ last.id = NumBig(maxId)
              /\ Admissible(last.random)
              /\ "resumed" \in DOMAIN last => Steady(last) )
              => /\ last.outcome.kind = "return"
                 /\ last.outcome.value.type = "string"

\* encode(maxId(length)) returned a string where maxId(length) is not 1.
C3_Witness ==
  /\ Encoded(last)
  /\ Valid(last.called)
  /\ last.id # Num(1)
  /\ last.id = NumBig(BigPow(Len(last.called.charset), last.payloadLength))
  /\ last.payloadLength =
       Resolved(last.length, last.called) - last.called.prefixLength

\* C4 (as claimed): under a valid configuration, whatever its prefixLength,
\* a string encode returns has exactly `length` characters, the argument or
\* else the configured default.
C4_OutputLength ==
  (Encoded(last) /\ Valid(last.called))
    => Len(last.outcome.value.s) = Resolved(last.length, last.called)

\* C5: maxId(length) returns |charset|^(length - prefixLength), length being
\* the argument or else the configured default; it fails with RangeError
\* whenever length <= prefixLength; under the default configuration maxId()
\* is 56800235584.
C5_MaxId ==
  (last.op = "maxId" /\ last.length.type \in {"number", "undefined"}) =>
    LET s == Settings(This)
        len == Resolved(last.length, s)
    IN  /\ last.outcome.kind = "return"
             => last.outcome.value =
                  NumBig(BigPow(Len(s.charset), len - s.prefixLength))
        /\ (Valid(s) /\ len > s.prefixLength) => last.outcome.kind = "return"
        /\ len <= s.prefixLength => IsError(last.outcome, "RangeError")
        /\ (s = DefaultSettings /\ last.length = Undef)
             => last.outcome =
                  Return(NumBig(<<4, 8, 5, 5, 3, 2, 0, 0, 8, 6, 5>>))

\* maxId() returned 62^6 under the default configuration.
C5_Witness ==
  /\ last.op = "maxId"
  /\ last.length = Undef
  /\ Settings(This) = DefaultSettings
  /\ last.outcome = Return(NumBig(BigPow(62, 6)))

\* c is one of the characters of chars.
Member(chars, c) == \E m \in 1..Len(chars) : chars[m] = c

\* C6 (as claimed): every character of every string encode returns is a
\* member of the configured charset.
C6_AlphabetClosure ==
  (Encoded(last) /\ Valid(last.called))
    => \A n \in 1..Len(last.outcome.value.s) :
         Member(last.called.charset, last.outcome.value.s[n])

\* decode was given a string with a character that is not in charset.
DecodedForeign ==
  /\ last.op = "decode"
  /\ last.id.type = "string"
  /\ \E n \in 1..Len(last.id.s) : ~Member(charset, last.id.s[n])

\* C7 (as claimed): decode fails with TypeError for every string holding a
\* character that is not in charset, and returns no number.
C7_ForeignCharacter ==
  DecodedForeign => IsError(last.outcome, "TypeError")

\* C7 (amended): under a valid configuration decode fails with TypeError
\* for every string holding a character that is not in charset, wherever
\* it stands; under an invalid configuration the call fails with the
\* RangeError of the configuration check first.
C7_ForeignCharacterValid ==
  DecodedForeign =>
    IF Valid(Settings(This))
      THEN last.outcome = Throw("TypeError", "\"id\" is invalid")
      ELSE IsError(last.outcome, "RangeError")

\* decode threw the TypeError for a string whose foreign character is its
\* third.
C7_Witness ==
  /\ DecodedForeign
  /\ Valid(Settings(This))
  /\ Member(charset, last.id.s[1])
  /\ Member(charset, last.id.s[2])
  /\ IsError(last.outcome, "TypeError")

\* The results the two draws of a call can have, in the model.
AllResults ==
  Promises(defaultRandomFunction) \cup Promises(Array(<<3, 5>>))

\* The ids of the model that lie in 1..maxId for a payload length.
IdsInRange(s, payloadLength) ==
  { id \in IdArgs :
      /\ id.type = "number" /\ ~HasHalf(id)
      /\ ~IdBelowOne(id)
      /\ ~BigLess(BigPow(Len(s.charset), payloadLength), id.mag) }

\* C8 (as claimed): under one configuration and length, two ids in
\* 1..maxId(length) never encode to the same string, whatever the
\* randomness of the two calls.
C8_OneNumber ==
  (Encoded(last) /\ Valid(last.called))
    => \A id \in IdsInRange(last.called, last.payloadLength) :
         \A results \in AllResults :
           GenerateResult(last.called, id, last.base, last.payloadLength,
                          results) = last.outcome
             => id = last.id

\* C9 (as claimed): with prefixLength 0, encode returns the same string for
\* one id and length whatever the randomness.
C9_OneString ==
  (Encoded(last) /\ Valid(last.called) /\ last.called.prefixLength = 0)
    => \A results \in AllResults :
         GenerateResult(last.called, last.id, last.base, last.payloadLength,
                        results) = last.outcome

\* C10: obscureId routes a number to generate and a string to decode, and
\* throws its TypeError for an argument of any other type, a missing one
\* included.
C10_Dispatch ==
  /\ \A n \in DOMAIN pending :
       pending[n].entry = "obscureId" => pending[n].id.type = "number"
  /\ ("entry" \in DOMAIN last /\ last.entry = "obscureId")
       => /\ last.id.type = "number"
               => /\ last.op = "generate"
                  /\ last.outcome =
                       IF Resumed(last)
                         THEN GenerateResult(last.resumed, last.id, last.base,
                                last.payloadLength, last.results)
                         ELSE GenerateChecks(This, last.id, last.length)
          /\ last.id.type = "string"
               => /\ last.op = "decode"
                  /\ last.outcome = Decode(This, last.id)
          /\ last.id.type \notin {"number", "string"}
               => /\ last.op = "obscureId"
                  /\ last.outcome =
                       Throw("TypeError", "\"id\" is not a number or a string")

\* obscureId() without an argument threw the TypeError.
C10_Witness ==
  /\ last.op = "obscureId"
  /\ last.id = Undef
  /\ IsError(last.outcome, "TypeError")

\* The fields of the configuration.
Fields == {"key", "charset", "defaultIdLength", "prefixLength", "randomFunction"}

\* C11: a configure(partial) call sets every configuration field present
\* in partial to the value partial gives it, leaves every field absent from
\* partial at the value it had before the call, and returns the configured
\* generator.
C11_Configure ==
  [][ last'.op = "configure"
        => /\ \A field \in Fields :
                This'[field] = IF field \in DOMAIN last'.options
                                 THEN last'.options[field]
                                 ELSE This[field]
           /\ last'.outcome = Return(Generator(This')) ]_vars

\* configure({prefixLength: 3}) ran on a generator whose key and charset an
\* earlier configure call had set: they are still in place.
C11_Witness ==
  /\ last.op = "configure"
  /\ last.options = [prefixLength |-> 3]
  /\ prefixLength = 3
  /\ key = KeyK
  /\ charset = CharsetAB
  /\ defaultIdLength = 5

\* The generator as the constructor leaves it (index.js:63-69, no options).
Fresh ==
  [key |-> DefaultKey, charset |-> DefaultCharset, defaultIdLength |-> 8,
   prefixLength |-> 2, randomFunction |-> defaultRandomFunction]

\* C12: whatever configure calls came before it, resetConfiguration leaves
\* key, charset, defaultIdLength, prefixLength and randomFunction at the
\* built-in defaults, and a maxId, encode or decode call made on the
\* generator in that configuration ends as it does on a freshly
\* constructed generator.
C12_Reset ==
  /\ last.op = "resetConfiguration" => This = Fresh
  /\ (last.op = "maxId" /\ This = Fresh)
       => last.outcome = MaxId(Fresh, last.length)
  /\ (last.op = "decode" /\ This = Fresh)
       => last.outcome = Decode(Fresh, last.id)
  /\ (last.op = "generate" /\ This = Fresh /\ ~Resumed(last))
       => \/ last.outcome = GenerateChecks(Fresh, last.id, last.length)
          \/ /\ GenerateChecks(Fresh, last.id, last.length).kind = "checked"
             /\ Promises(RandomSource(Fresh, last.random)) = {}
             /\ IsError(last.outcome, "TypeError")
  /\ (Steady(last) /\ This = Fresh)
       => last.outcome = GenerateResult(Fresh, last.id, 62, last.payloadLength,
                                        last.results)

\* resetConfiguration ran on a generator whose key, charset, default length,
\* prefixLength and randomFunction configure calls had all changed.
C12_Witness ==
  /\ last.op = "resetConfiguration"
  /\ last.before.key = KeyK
  /\ last.before.charset = CharsetAB
  /\ last.before.defaultIdLength = 5
  /\ last.before.prefixLength = 3
  /\ last.before.randomFunction # defaultRandomFunction
  /\ This = Fresh

\* The randomness arguments the specification admits: none, a function, or
\* an array of exactly two values in [0, 1).
Admitted(random) ==
  \/ random.type \in {"undefined", "function"}
  \/ /\ random.type = "array"
     /\ Len(random.vals) = 2
     /\ \A n \in 1..2 : random.vals[n] >= 0 /\ random.vals[n] < 10

\* The randomness arguments generate goes on with: a falsy one (the
\* configured function takes its place), a function, or an array of two or
\* more elements.
Accepted(random) ==
  \/ Falsy(random)
  \/ random.type = "function"
  \/ random.type = "array" /\ Len(random.vals) >= 2

\* A generate call in `last` that got past the checks of the
\* configuration, the id and the length.
PastChecks(c) ==
  /\ c.op = "generate"
  /\ GenerateChecks(CalledUnder(c), c.id, c.length).kind = "checked"

C14_IntegerId ==
  (PastChecks(last) /\ HasHalf(last.id) /\ Accepted(last.random))
    => IsError(last.outcome, "TypeError")

\* C15: a configure call returns whatever options it is given, and while
\* the key is empty, the charset is empty or prefixLength is below 0, every
\* maxId, encode and decode call throws the RangeError of the configuration
\* check, also a call whose own arguments are invalid.
C15_Deferred ==
  /\ last.op = "configure" => last.outcome.kind = "return"
  /\ (last.op \in {"maxId", "decode"} /\ ~Valid(Settings(This)))
       => /\ IsError(last.outcome, "RangeError")
          /\ last.outcome.message = ConfigurationError(This)
  /\ (last.op = "generate" /\ ~Valid(CalledUnder(last)))
       => /\ IsError(last.outcome, "RangeError")
          /\ last.outcome.message
               \in {"invalid prefixLength", "invalid charset", "invalid key"}
          /\ ~Resumed(last)

\* decode(19), a call whose argument is no string, threw the RangeError of
\* an empty key.
C15_Witness ==
  /\ last.op = "decode"
  /\ last.id = Num(19)
  /\ key = <<>>
  /\ charset # <<>>
  /\ prefixLength >= 0
  /\ last.outcome = Throw("RangeError", "invalid key")

\* How often c occurs in text.
Occurrences(text, c) == Cardinality({n \in 1..Len(text) : text[n] = c})

\* b holds the characters of a in some order.
Rearranged(a, b) ==
  /\ Len(a) = Len(b)
  /\ \A n \in 1..Len(a) : Occurrences(a, a[n]) = Occurrences(b, a[n])

\* The placement loop of the generate call c: no step reaches the branch
\* that returns false, and every slot of the output is filled with one
\* character.
PlacementFills(c) ==
  LET placed == Placed(c.resumed, c.id, c.base, c.payloadLength, c.results)
  IN  /\ ~placed.overflow
      /\ c.outcome.value # False
      /\ Len(placed.output) = c.payloadLength
      /\ \A n \in 1..c.payloadLength : placed.output[n] # Nul

\* Every generate call that reaches the placement loop fills every slot.
EveryPlacementFills == Resumed(last) => PlacementFills(last)

\* C16 (as claimed): in every encode call of an integer id under a valid
\* configuration, no placement step reaches the branch that returns false,
\* every slot of the output is filled, and the output holds the characters
\* of the substitution cipher's output in some order.
C16_Permutation ==
  (Steady(last) /\ Valid(last.called) /\ ~HasHalf(last.id))
    => /\ PlacementFills(last)
       /\ Rearranged(CipherOutput(last.resumed, last.id, last.base,
                                  last.payloadLength, last.results),
                     Placed(last.resumed, last.id, last.base,
                            last.payloadLength, last.results).output)

\* How the generate call c ends when it is made and runs to its end under
\* the configuration s, with the randomness results c got.
EncodingUnder(s, c) ==
  LET checks == GenerateChecks(s, c.id, c.length)
  IN  IF checks.kind = "throw" THEN checks
      ELSE GenerateResult(s, c.id, Len(s.charset),
                          PayloadLength(s, checks.length), c.results)

\* C17: a generate call that got past its await used the base and the
\* payload length of the configuration it was called under and the key,
\* charset and prefixLength of the configuration it resumed under; this
\* gives the encoding of its id when the two are the same configuration
\* (and with a configure or resetConfiguration call in between, a string
\* that is the encoding under neither, as in C17_Witness).
C17_Interleaving ==
  Resumed(last)
    => /\ last.base = Len(last.called.charset)
       /\ last.payloadLength
            = Resolved(last.length, last.called) - last.called.prefixLength
       /\ last.outcome = GenerateResult(last.resumed, last.id, last.base,
                                        last.payloadLength, last.results)
       /\ last.called = last.resumed
            => last.outcome = EncodingUnder(last.called, last)

\* A generate call was suspended under one valid configuration and resumed
\* under another one, both of which encode its id, and returned a string
\* that is the encoding under neither of them.
C17_Witness ==
  /\ Resumed(last)
  /\ last.called # last.resumed
  /\ Valid(last.called) /\ Valid(last.resumed)
  /\ last.outcome.kind = "return"
  /\ last.outcome.value.type = "string"
  /\ EncodingUnder(last.called, last).kind = "return"
  /\ EncodingUnder(last.resumed, last).kind = "return"
  /\ last.outcome # EncodingUnder(last.called, last)
  /\ last.outcome # EncodingUnder(last.resumed, last)

\* The pairs of results two invocations of the function of SharedValues
\* give when one follows the other at once: two values next to each other
\* in the array, or undefined where the array has run out.
AdjacentDraws ==
  {<< <<SharedValues[k]>>, <<SharedValues[k + 1]>> >> :
     k \in 1..(Len(SharedValues) - 1)}
    \cup {<< <<SharedValues[Len(SharedValues)]>>, <<>> >>, << <<>>, <<>> >>}

\* The generate call c took its two draws from the configured function of
\* SharedValues.
DrewShared(c) ==
  c.op = "generate" /\ "source" \in DOMAIN c /\ c.source.name = "randomFunction"

\* values is what is left of the array `of` after one invocation or more.
LaterThan(values, of) ==
  \E k \in 1..Len(of) : values = SubSeq(of, k + 1, Len(of))

\* The draws of the calls in flight and of the call that ended last.
DrawsAdjacent ==
  /\ \A n \in DOMAIN pending :
       DrewShared(pending[n]) => pending[n].results \in AdjacentDraws
  /\ DrewShared(last) => last.results \in AdjacentDraws
  /\ \A n \in DOMAIN pending : \A m \in DOMAIN pending :
       ( /\ n < m
         /\ DrewShared(pending[n]) /\ DrewShared(pending[m])
         /\ LaterThan(pending[m].source.randomValues,
                      pending[n].source.randomValues) )
         => \/ Len(pending[n].source.randomValues) < 2
            \/ pending[m].source.randomValues
                 = SubSeq(pending[n].source.randomValues, 3,
                          Len(pending[n].source.randomValues))
            \/ LaterThan(pending[m].source.randomValues,
                         SubSeq(pending[n].source.randomValues, 3,
                                Len(pending[n].source.randomValues)))
  /\ (Encoded(last) /\ Valid(last.called))
       => /\ last.outcome.value.s[1]
               = CharAt(last.called.charset, Scale(last.results[1], last.base))
          /\ last.outcome.value.s[2]
               = CharAt(last.called.charset, Scale(last.results[2], last.base))

\* A step in which a generate call ends before its await draws nothing.
FailedCallDrawsNothing ==
  (last'.op = "generate" /\ ~Resumed(last'))
    => /\ last'.outcome.kind = "throw"
       /\ randomFunction' = randomFunction
       /\ pending' = pending

\* C20: with several encode calls in flight that share one randomness
\* function, the two draws of each call are invocations next to each other
\* (a call made later starts after both draws of every call made before
\* it), the first draw gives r1 and the second r2, and a call that fails
\* the configuration, id or length validation leaves the function as it
\* was.
C20_SharedDraws == []DrawsAdjacent /\ [][FailedCallDrawsNothing]_vars

\* Two encode calls are in flight: the one made first drew 0.3 and 0.5, the
\* one made second 0.1 and 0.7.
C20_Witness ==
  /\ Len(pending) = 2
  /\ DrewShared(pending[1]) /\ DrewShared(pending[2])
  /\ pending[1].results = << <<3>>, <<5>> >>
  /\ pending[2].results = << <<1>>, <<7>> >>
  /\ randomFunction = RandomFunction(<<>>)

\* No character stands twice in the text.
PairwiseDistinct(text) ==
  \A n \in 1..Len(text) : Occurrences(text, text[n]) = 1

\* Both randomness values lie in [0, 1).
InUnitInterval(results) ==
  \A n \in 1..2 : results[n] # <<>> /\ results[n][1] \in 0..9

\* The generate call c is one of an integer id with 1 <= id < maxId(length)
\* and a length above 2, under prefixLength 2 and a charset of pairwise
\* distinct characters, with randomness values in [0, 1).
BelowMaxId(c) ==
  /\ c.called.prefixLength = 2
  /\ PairwiseDistinct(c.called.charset)
  /\ InUnitInterval(c.results)
  /\ Resolved(c.length, c.called) > 2
  /\ c.id.type = "number" /\ ~HasHalf(c.id) /\ ~IdBelowOne(c.id)
  /\ BigLess(c.id.mag, Round(BigPow(c.base, c.payloadLength)))

\* C18 (as claimed): with prefixLength 2, a charset of pairwise distinct
\* characters and randomness values in [0, 1), decode(encode(id, length,
\* randomness)) returns id for every length above 2 and every integer id
\* with 1 <= id < maxId(length).
C18_RoundTripBelowMaxId ==
  (DecodedBack /\ BelowMaxId(last.of)) => last.outcome = Return(last.of.id)

\* C19 (as claimed): under a valid configuration a decode call that returns
\* returns a number v with 1 <= v <= maxId(|text|), never 0, also for a
\* text of at most prefixLength characters.
C19_DecodedIsId ==
  (last.op = "decode" /\ last.outcome.kind = "return")
    => LET max == MaxId(This, Num(Len(last.id.s)))
       IN  /\ last.outcome.value.type = "number"
           /\ last.outcome.value.mag # <<>>
           /\ max.kind = "return"
           /\ ~BigLess(max.value.mag, last.outcome.value.mag)

====
